---- MODULE Spec2Model ----
(***************************************************************************)
(* A model of the CHIP-8 interpreter of src/src/main.rs: the machine state *)
(* of struct Chip8 (Cpu, ram, display, Stack, Timer), the host loop of     *)
(* main(), and one action per operation of that loop.                      *)
(***************************************************************************)
EXTENDS Integers, Naturals, Sequences, FiniteSets, TLC

\* ------------------------------------------------------------ constants

WIDTH == 64
HEIGHT == 32
PROGRAM_START == 512
RAM_SIZE == 4096
STACK_SLOTS == 16
NUM_REGS == 16
PIXEL_MASK == 16777215
SPRITE_COLS == 5
U8_MOD == 256
U16_MOD == 65536

\* ------------------------------------------------------------ bounds

\* instruction cycles of the host loop that the model follows
MaxCycles == 4
\* clock units that may pass between two timer checks
MaxDt == 2
\* clock units in 1/60 second
TicksPerFrame == 2

\* ------------------------------------------------------------ integers

RECURSIVE BitOr(_, _)
\* a | b on unsigned integers
BitOr(a, b) ==
    IF a = 0 THEN b
    ELSE IF b = 0 THEN a
    ELSE (IF a % 2 = 1 \/ b % 2 = 1 THEN 1 ELSE 0) + 2 * BitOr(a \div 2, b \div 2)

RECURSIVE BitAnd(_, _)
\* a & b on unsigned integers
BitAnd(a, b) ==
    IF a = 0 \/ b = 0 THEN 0
    ELSE (IF a % 2 = 1 /\ b % 2 = 1 THEN 1 ELSE 0) + 2 * BitAnd(a \div 2, b \div 2)

RECURSIVE BitXor(_, _)
\* a ^ b on unsigned integers
BitXor(a, b) ==
    IF a = 0 THEN b
    ELSE IF b = 0 THEN a
    ELSE (IF a % 2 # b % 2 THEN 1 ELSE 0) + 2 * BitXor(a \div 2, b \div 2)

RECURSIVE Pow2(_)
Pow2(n) == IF n = 0 THEN 1 ELSE 2 * Pow2(n - 1)

\* u8::wrapping_add, u8::wrapping_sub
wrapping_add(a, b) == (a + b) % U8_MOD
wrapping_sub(a, b) == (a - b + U8_MOD) % U8_MOD

\* ------------------------------------------------------------ panics

Running == "running"
IndexPanic == "index out of bounds"
OverflowPanic == "arithmetic overflow"
UnwrapPanic == "unwrap on None"
ClockPanic == "unwrap on Err"

\* ------------------------------------------------------------ state

VARIABLES
    cpu,              \* Cpu { vx, pc, i }
    ram,              \* Chip8::ram
    display,          \* Chip8::display
    stack,            \* Stack { mem, size }
    hour,             \* Timer { sound, delay, hour }; hour as the clock units since the stored instant
    status,           \* "running", or the panic that ended the process
    phase,            \* position of main(): "new", "load", "run", "tick"
    overflow_checks,  \* whether the build panics on integer overflow (debug) or wraps (release)
    cycles,           \* iterations of the host loop so far
    last_elapsed,     \* what the last timer check read as elapsed
    prev,             \* the instruction of the last cycle, the state it started from and
                      \* the keys the window reported in it
    rom               \* main: data, the bytes given to load_rom

vars ==
    <<cpu, ram, display, stack, hour, status, phase, overflow_checks, cycles, last_elapsed, prev,
      rom>>

\* self, as the methods of Chip8 see it
Chip8 ==
    [cpu |-> cpu, ram |-> ram, display |-> display, stack |-> stack,
     hour |-> hour, status |-> status]

Panic(c, what) == [c EXCEPT !.status = what]

\* ------------------------------------------------------------ construction

Cpu_new == [vx |-> [r \in 0..(NUM_REGS - 1) |-> 0], pc |-> PROGRAM_START, i |-> 0]

Stack_new == [mem |-> [s \in 0..(STACK_SLOTS - 1) |-> 0], size |-> 0]

Timer_new == [sound |-> 0, delay |-> 0, hour |-> 0]

sprites ==
    << 240, 144, 144, 144, 240,
        32,  96,  32,  32, 112,
       240,  16, 240, 128, 240,
       240,  16, 240,  16, 240,
       144, 144, 240,  16,  16,
       240, 128, 240,  16, 240,
       240, 128, 240, 144, 240,
       240,  16,  32,  64,  64,
       240, 144, 240, 144, 240,
       240, 144, 240,  16, 240,
       240, 144, 240, 144, 144,
       224, 144, 224, 144, 224,
       240, 128, 128, 128, 240,
       224, 144, 144, 144, 224,
       240, 128, 240, 128, 240,
       240, 128, 240, 128, 128 >>

\* the logical key -> host key table of Chip8::new
keyboard ==
    [k \in 0..15 |->
        CASE k = 1 -> "Key1" [] k = 2 -> "Key2" [] k = 3 -> "Key3" [] k = 12 -> "Key4"
          [] k = 4 -> "Q" [] k = 5 -> "W" [] k = 6 -> "E" [] k = 13 -> "R"
          [] k = 7 -> "A" [] k = 8 -> "S" [] k = 9 -> "D" [] k = 14 -> "F"
          [] k = 10 -> "Z" [] k = 0 -> "X" [] k = 11 -> "C" [] k = 15 -> "V"]

NoOpcode == [d1 |-> 0, d2 |-> 0, d3 |-> 0, d4 |-> 0]

NoPrev ==
    [valid |-> FALSE, opcode |-> NoOpcode, cpu |-> Cpu_new, stack |-> Stack_new,
     display |-> [p \in 0..(WIDTH * HEIGHT - 1) |-> 0], hour |-> Timer_new, keys |-> <<>>]

Init ==
    /\ cpu = Cpu_new
    /\ ram = [a \in 0..(RAM_SIZE - 1) |-> 0]
    /\ display = [p \in 0..(WIDTH * HEIGHT - 1) |-> 0]
    /\ stack = Stack_new
    /\ hour = Timer_new
    /\ status = Running
    /\ phase = "new"
    /\ overflow_checks \in BOOLEAN
    /\ cycles = 0
    /\ last_elapsed = 0
    /\ prev = NoPrev
    /\ rom = <<>>

\* ------------------------------------------------------------ loading

load_sprites(c) ==
    [c EXCEPT !.ram = [a \in 0..(RAM_SIZE - 1) |->
                          IF a < Len(sprites) THEN sprites[a + 1] ELSE c.ram[a]]]

\* the bytes of data that land in ram before the first index past ram panics
load_rom(c, data) ==
    LET written == [a \in 0..(RAM_SIZE - 1) |->
                       IF a >= PROGRAM_START /\ a - PROGRAM_START < Len(data)
                       THEN data[a - PROGRAM_START + 1]
                       ELSE c.ram[a]]
    IN  IF PROGRAM_START + Len(data) > RAM_SIZE
        THEN Panic([c EXCEPT !.ram = written], IndexPanic)
        ELSE [c EXCEPT !.ram = written]

\* ------------------------------------------------------------ Stack

Stack_add(c, address) ==
    IF c.stack.size >= STACK_SLOTS
    THEN Panic(c, IndexPanic)
    ELSE [c EXCEPT !.stack.mem[c.stack.size] = address,
                   !.stack.size = c.stack.size + 1]

\* self.size -= 1; self.mem[(self.size + 1) as usize]: the machine after it and
\* the value returned
Stack_pop(c) ==
    IF c.stack.size = 0 /\ overflow_checks
    THEN [c |-> Panic(c, OverflowPanic), val |-> 0]
    ELSE LET size1 == (c.stack.size - 1 + U8_MOD) % U8_MOD
             c1 == [c EXCEPT !.stack.size = size1]
         IN  IF size1 + 1 >= U8_MOD /\ overflow_checks
             THEN [c |-> Panic(c1, OverflowPanic), val |-> 0]
             ELSE LET idx == (size1 + 1) % U8_MOD
                  IN  IF idx >= STACK_SLOTS
                      THEN [c |-> Panic(c1, IndexPanic), val |-> 0]
                      ELSE [c |-> c1, val |-> c1.stack.mem[idx]]

call_subroutine(c, address) == Stack_add(c, address)

\* ------------------------------------------------------------ Cpu

SetVx(c, x, v) == [c EXCEPT !.cpu.vx[x] = v]

\* add_registers storing the sum in the second register
add_registers_store_vb(c, va, vb) ==
    LET c1 == IF c.cpu.vx[va] + c.cpu.vx[vb] > 255 THEN SetVx(c, 15, 1) ELSE c
    IN  SetVx(c1, vb, wrapping_add(c1.cpu.vx[va], c1.cpu.vx[vb]))

add_registers(c, va, vb) ==
    LET c1 == IF c.cpu.vx[va] + c.cpu.vx[vb] > 255 THEN SetVx(c, 15, 1) ELSE c
    IN  SetVx(c1, va, wrapping_add(c1.cpu.vx[va], c1.cpu.vx[vb]))

substract_registers(c, va, vb, store) ==
    LET c1 == IF c.cpu.vx[va] > c.cpu.vx[vb] THEN SetVx(c, 15, 1) ELSE SetVx(c, 15, 0)
    IN  SetVx(c1, va, wrapping_sub(c1.cpu.vx[va], c1.cpu.vx[vb]))

half_register(c, x) ==
    LET c1 == IF c.cpu.vx[x] % 2 = 1 THEN SetVx(c, 15, 1) ELSE SetVx(c, 15, 0)
    IN  SetVx(c1, x, c1.cpu.vx[x] \div 2)

\* the product of wrapping_mul(2) is dropped: only the flag is written
double_register(c, x) ==
    IF c.cpu.vx[x] % 2 = 1 THEN SetVx(c, 15, 1) ELSE SetVx(c, 15, 0)

\* 7xkk with a saturating add
add_immediate_saturating(c, x, kk) ==
    LET sum == c.cpu.vx[x] + (kk % U8_MOD)
    IN  SetVx(c, x, IF sum > 255 THEN 255 ELSE sum)

\* 7xkk: vx[d2] = vx[d2].wrapping_add(kk as u8)
add_immediate(c, x, kk) == SetVx(c, x, wrapping_add(c.cpu.vx[x], kk % U8_MOD))

\* ------------------------------------------------------------ display

clear_display(c) ==
    [c EXCEPT !.display = [p \in 0..(WIDTH * HEIGHT - 1) |-> PIXEL_MASK]]

\* the pixel set instead of toggled
toggle_pixel_or(v) == BitOr(v, 1 * PIXEL_MASK)

\* self.display[..] ^= 1 * 0xFFFFFF
toggle_pixel(v) == BitXor(v, 1 * PIXEL_MASK)

RECURSIVE draw_rows(_, _, _, _, _, _, _)
\* the two loops of draw_sprite from step k on (row k \div 5, column k % 5):
\* the display and the flag after them
draw_rows(disp, flag, bytes, x, y, n, k) ==
    IF k >= n * SPRITE_COLS
    THEN [display |-> disp, flag |-> flag]
    ELSE LET j == k \div SPRITE_COLS
             col == k % SPRITE_COLS
             row == bytes[j]
             new_value == BitAnd(row \div Pow2(7 - col), 1)
         IN  IF new_value = 1
             THEN LET xi == (x + col) % WIDTH
                      yi == (y + j) % HEIGHT
                      px == toggle_pixel(disp[yi * WIDTH + xi])
                  IN  draw_rows([disp EXCEPT ![yi * WIDTH + xi] = px],
                                IF px = 0 THEN 1 ELSE flag, bytes, x, y, n, k + 1)
             ELSE draw_rows(disp, flag, bytes, x, y, n, k + 1)

\* x and y are the register numbers d2 and d3 of the instruction
draw_sprite(c, i, x, y, n) ==
    IF i + n >= U16_MOD
    THEN \* i + n overflows u16: a panic with overflow checks; without them the
         \* range i..i+n is empty and sprites[0] is out of bounds
         IF overflow_checks THEN Panic(c, OverflowPanic)
         ELSE Panic(SetVx(c, 15, 0), IndexPanic)
    ELSE IF n > 0 /\ i + n > RAM_SIZE
    THEN Panic(c, IndexPanic)
    ELSE LET bytes == [j \in 0..(n - 1) |-> c.ram[i + j]]
             r == draw_rows(c.display, 0, bytes, x, y, n, 0)
         IN  [c EXCEPT !.cpu.vx[15] = r.flag, !.display = r.display]

\* ------------------------------------------------------------ keys and random

\* window.is_key_down(key), keys being what window.get_keys() returns
is_key_down(keys, key) == \E k \in 1..Len(keys) : keys[k] = key

None == [some |-> FALSE, val |-> 0]

\* the result of find_map is dropped and None is returned for every key
match_key(c, key_pressed) == None

\* the key at position 1 of get_keys() (enumerate index > 0) is the first one matched
wait_for_key(c, keys) ==
    IF Len(keys) >= 2
    THEN LET r == match_key(c, keys[2])
         IN  IF r.some THEN SetVx(c, 15, r.val) ELSE Panic(c, UnwrapPanic)
    ELSE c

random_number(c, vx, kk, number) ==
    SetVx(c, vx, BitAnd(number, kk % U8_MOD))

\* ------------------------------------------------------------ Timer

\* the Err of SystemTime::elapsed()
ClockErr == [ok |-> FALSE, val |-> 0]

\* the furthest the system clock is set back between two timer checks: past any
\* age a stored instant is kept at
MaxBack == TicksPerFrame + 1

\* self.hour.elapsed(), the system clock having moved by dt clock units since
\* the last check (dt < 0: set back): Err when it reads earlier than the stored
\* instant; an instant older than 1/60 second is kept as exactly that old
Elapsed(t, dt) ==
    IF t.hour + dt < 0 THEN ClockErr
    ELSE [ok |-> TRUE,
          val |-> IF t.hour + dt >= TicksPerFrame THEN TicksPerFrame ELSE t.hour + dt]

\* the timers counted down at every check, whatever time has gone by
delay_countdown_every_check(t, elapsed) ==
    LET t0 == [t EXCEPT !.hour = elapsed]
        t1 == IF t0.delay > 0 THEN [t0 EXCEPT !.delay = t0.delay - 1, !.hour = 0] ELSE t0
        t2 == IF t1.sound > 0 THEN [t1 EXCEPT !.sound = t1.sound - 1, !.hour = 0] ELSE t1
    IN  t2

\* elapsed is read once, before both tests; elapsed is the unwrapped duration
delay_countdown(t, elapsed) ==
    LET t0 == [t EXCEPT !.hour = elapsed]
        t1 == IF t0.delay > 0 /\ elapsed >= TicksPerFrame
              THEN [t0 EXCEPT !.delay = t0.delay - 1, !.hour = 0]
              ELSE t0
        t2 == IF t1.sound > 0 /\ elapsed >= TicksPerFrame
              THEN [t1 EXCEPT !.sound = t1.sound - 1, !.hour = 0]
              ELSE t1
    IN  t2

\* ------------------------------------------------------------ the interpreter

Decode(hb, lb) ==
    [d1 |-> hb \div 16, d2 |-> hb % 16, d3 |-> lb \div 16, d4 |-> lb % 16]

\* (d2 << 8) | (d3 << 4) | (d4)
Addr(o) == BitOr(BitOr(o.d2 * 256, o.d3 * 16), o.d4)

\* (d3 << 4) | d4
Imm(o) == BitOr(o.d3 * 16, o.d4)

Skip(c, cond) == IF cond THEN [c EXCEPT !.cpu.pc = c.cpu.pc + 2] ELSE c

return_subroutine(c) ==
    LET r == Stack_pop(c)
    IN  IF r.c.status = Running THEN [r.c EXCEPT !.cpu.pc = r.val] ELSE r.c

\* Fx1E: self.cpu.i += vx as u16
add_index(c, x) ==
    LET sum == c.cpu.i + c.cpu.vx[x]
    IN  IF sum >= U16_MOD /\ overflow_checks
        THEN Panic(c, OverflowPanic)
        ELSE [c EXCEPT !.cpu.i = sum % U16_MOD]

\* Fx33: three stores, the second and third to i + 1
store_bcd(c, x) ==
    LET v == c.cpu.vx[x]
        i == c.cpu.i
    IN  IF i >= RAM_SIZE THEN Panic(c, IndexPanic)
        ELSE LET c1 == [c EXCEPT !.ram[i] = v \div 100]
             IN  IF i + 1 >= RAM_SIZE THEN Panic(c1, IndexPanic)
                 ELSE LET c2 == [c1 EXCEPT !.ram[i + 1] = (v % 100) \div 10]
                      IN  [c2 EXCEPT !.ram[i + 1] = v % 10]

\* Fx55: for i in 0..d2, stopping at the first index past ram
store_registers(c, x) ==
    LET i == c.cpu.i
        done == [c EXCEPT !.ram = [a \in 0..(RAM_SIZE - 1) |->
                                      IF a >= i /\ a - i < x THEN c.cpu.vx[a - i]
                                      ELSE c.ram[a]]]
    IN  IF x > 0 /\ i + x > RAM_SIZE THEN Panic(done, IndexPanic) ELSE done

\* Fx65: for i in 0..d2, stopping at the first index past ram
load_registers(c, x) ==
    LET i == c.cpu.i
        done == [c EXCEPT !.cpu.vx = [r \in 0..(NUM_REGS - 1) |->
                                         IF r < x /\ i + r < RAM_SIZE THEN c.ram[i + r]
                                         ELSE c.cpu.vx[r]]]
    IN  IF x > 0 /\ i + x > RAM_SIZE THEN Panic(done, IndexPanic) ELSE done

\* the pattern 5xy0 with its last nibble left free
Is5xy0_any_d4(o) == o.d1 = 5

\* Opcode { d1: 0x5, d2, d3, d4: 0 }
Is5xy0(o) == o.d1 = 5 /\ o.d4 = 0

\* the match of run_instruction, pc already advanced
Execute(c, o, keys, number) ==
    CASE o.d1 = 0 /\ o.d2 = 0 /\ o.d3 = 14 /\ o.d4 = 0 -> clear_display(c)
      [] o.d1 = 0 /\ o.d2 = 0 /\ o.d3 = 14 /\ o.d4 = 14 -> return_subroutine(c)
      [] o.d1 = 1 -> [c EXCEPT !.cpu.pc = Addr(o)]
      [] o.d1 = 2 -> call_subroutine(c, Addr(o))
      [] o.d1 = 3 -> Skip(c, c.cpu.vx[o.d2] = Imm(o))
      [] o.d1 = 4 -> Skip(c, c.cpu.vx[o.d2] # Imm(o))
      [] Is5xy0(o) -> Skip(c, c.cpu.vx[o.d2] = c.cpu.vx[o.d3])
      [] o.d1 = 6 -> SetVx(c, o.d2, Imm(o) % U8_MOD)
      [] o.d1 = 7 -> add_immediate(c, o.d2, Imm(o))
      [] o.d1 = 8 /\ o.d4 = 0 -> SetVx(c, o.d2, c.cpu.vx[o.d3])
      [] o.d1 = 8 /\ o.d4 = 1 -> SetVx(c, o.d2, BitOr(c.cpu.vx[o.d2], c.cpu.vx[o.d3]))
      [] o.d1 = 8 /\ o.d4 = 2 -> SetVx(c, o.d2, BitAnd(c.cpu.vx[o.d2], c.cpu.vx[o.d3]))
      [] o.d1 = 8 /\ o.d4 = 3 -> SetVx(c, o.d2, BitXor(c.cpu.vx[o.d2], c.cpu.vx[o.d3]))
      [] o.d1 = 8 /\ o.d4 = 4 -> add_registers(c, o.d2, o.d3)
      [] o.d1 = 8 /\ o.d4 = 5 -> substract_registers(c, o.d2, o.d3, o.d2)
      [] o.d1 = 8 /\ o.d4 = 6 -> half_register(c, o.d2)
      [] o.d1 = 8 /\ o.d4 = 7 -> substract_registers(c, o.d3, o.d2, o.d2)
      [] o.d1 = 8 /\ o.d4 = 14 -> double_register(c, o.d2)
      [] o.d1 = 9 /\ o.d4 = 0 -> Skip(c, c.cpu.vx[o.d2] # c.cpu.vx[o.d3])
      [] o.d1 = 10 -> [c EXCEPT !.cpu.i = Addr(o)]
      [] o.d1 = 11 ->
            [c EXCEPT !.cpu.pc = BitOr(BitOr(o.d2 * 256, o.d3 * 16), o.d4 + c.cpu.vx[0])]
      [] o.d1 = 12 -> random_number(c, o.d2, Imm(o), number)
      [] o.d1 = 13 -> draw_sprite(c, c.cpu.i, o.d2, o.d3, o.d4)
      [] o.d1 = 14 /\ o.d3 = 9 /\ o.d4 = 14 -> Skip(c, is_key_down(keys, keyboard[o.d2]))
      [] o.d1 = 14 /\ o.d3 = 10 /\ o.d4 = 1 -> Skip(c, ~is_key_down(keys, keyboard[o.d2]))
      [] o.d1 = 15 /\ o.d3 = 0 /\ o.d4 = 7 -> SetVx(c, o.d2, c.hour.delay)
      [] o.d1 = 15 /\ o.d3 = 0 /\ o.d4 = 10 -> wait_for_key(c, keys)
      [] o.d1 = 15 /\ o.d3 = 1 /\ o.d4 = 5 -> [c EXCEPT !.hour.delay = c.cpu.vx[o.d2]]
      [] o.d1 = 15 /\ o.d3 = 1 /\ o.d4 = 14 -> add_index(c, o.d2)
      [] o.d1 = 15 /\ o.d3 = 2 /\ o.d4 = 9 -> [c EXCEPT !.cpu.i = o.d2 * 5]
      [] o.d1 = 15 /\ o.d3 = 3 /\ o.d4 = 3 -> store_bcd(c, o.d2)
      [] o.d1 = 15 /\ o.d3 = 5 /\ o.d4 = 5 -> store_registers(c, o.d2)
      [] o.d1 = 15 /\ o.d3 = 6 /\ o.d4 = 5 -> load_registers(c, o.d2)
      [] OTHER -> c

\* whether the two bytes at pc can be read
CanFetch(c) == c.cpu.pc + 1 < RAM_SIZE

Fetch(c) == Decode(c.ram[c.cpu.pc], c.ram[c.cpu.pc + 1])

run_instruction(c, keys, number) ==
    IF ~CanFetch(c)
    THEN Panic(c, IndexPanic)
    ELSE Execute([c EXCEPT !.cpu.pc = c.cpu.pc + 2], Fetch(c), keys, number)

\* ------------------------------------------------------------ inputs

\* host keys that may be down when the window is asked
HostKeys == {"Key1", "X"}

\* what window.get_keys() may return: the keys that are down, each once
KeyLists ==
    {<<>>} \cup {<<a>> : a \in HostKeys}
           \cup {s \in HostKeys \X HostKeys : s[1] # s[2]}

\* what rng.gen_range(0..=255) may return
RandomBytes == {0, 165, 255}

\* the window is asked by Ex9E, ExA1 and Fx0A only, the generator by Cxkk only
ReadsKeys(o) ==
    \/ o.d1 = 14 /\ o.d3 = 9 /\ o.d4 = 14
    \/ o.d1 = 14 /\ o.d3 = 10 /\ o.d4 = 1
    \/ o.d1 = 15 /\ o.d3 = 0 /\ o.d4 = 10
ReadsRandom(o) == o.d1 = 12

\* a program as the bytes of its instruction words, high byte first
RECURSIVE Prog(_)
Prog(words) ==
    IF words = <<>> THEN <<>>
    ELSE <<Head(words) \div 256, Head(words) % 256>> \o Prog(Tail(words))

\* ------------------------------------------------------------ actions

Assign(c) ==
    /\ cpu' = c.cpu
    /\ ram' = c.ram
    /\ display' = c.display
    /\ stack' = c.stack
    /\ hour' = c.hour
    /\ status' = c.status

\* main: chip8.load_sprites()
LoadSprites ==
    /\ phase = "new"
    /\ Assign(load_sprites(Chip8))
    /\ phase' = "load"
    /\ UNCHANGED <<overflow_checks, cycles, last_elapsed, prev, rom>>

\* main: chip8.load_rom(data)
LoadRom(data) ==
    /\ phase = "load"
    /\ Assign(load_rom(Chip8, data))
    /\ phase' = "run"
    /\ rom' = data
    /\ UNCHANGED <<overflow_checks, cycles, last_elapsed, prev>>

\* main: chip8.run_instruction(window), at most limit times
RunInstruction(limit) ==
    /\ phase = "run"
    /\ status = Running
    /\ cycles < limit
    /\ LET o == IF CanFetch(Chip8) THEN Fetch(Chip8) ELSE NoOpcode
       IN  \E keys \in (IF ReadsKeys(o) THEN KeyLists ELSE {<<>>}) :
             \E number \in (IF ReadsRandom(o) THEN RandomBytes ELSE {0}) :
                /\ Assign(run_instruction(Chip8, keys, number))
                /\ prev' = IF CanFetch(Chip8)
                           THEN [valid |-> TRUE, opcode |-> o, cpu |-> cpu, stack |-> stack,
                                 display |-> display, hour |-> hour, keys |-> keys]
                           ELSE NoPrev
    /\ phase' = "tick"
    /\ cycles' = cycles + 1
    /\ UNCHANGED <<overflow_checks, last_elapsed, rom>>

\* main: chip8.hour.delay_countdown(), then the window is updated, which changes
\* nothing of the machine; the unwrap of elapsed() panics on Err, before
\* anything is written
DelayCountdown ==
    /\ phase = "tick"
    /\ status = Running
    /\ \E dt \in (0 - MaxBack)..MaxDt :
          LET e == Elapsed(hour, dt)
          IN  IF e.ok
              THEN /\ last_elapsed' = e.val
                   /\ hour' = delay_countdown(hour, e.val)
                   /\ status' = status
              ELSE /\ status' = ClockPanic
                   /\ UNCHANGED <<hour, last_elapsed>>
    /\ phase' = "run"
    /\ UNCHANGED <<cpu, ram, display, stack, overflow_checks, cycles, prev, rom>>

\* the host loop over the programs of roms
Loop(roms, limit) ==
    \/ LoadSprites
    \/ \E data \in roms : LoadRom(data)
    \/ RunInstruction(limit)
    \/ DelayCountdown

\* ------------------------------------------------------------ arithmetic programs

\* registers and values the arithmetic programs use
AluRegs == {0, 1, 15}
AluValues == {0, 5, 200, 255}
AluFlags == {0, 1}
AluImmediates == {1, 100, 255}

\* instruction words
LdImm(x, kk) == 24576 + x * 256 + kk
AddImm(x, kk) == 28672 + x * 256 + kk
Alu(x, y, op) == 32768 + x * 256 + y * 16 + op

\* vF <- f; vx <- a; vy <- b; then 8xy4 or 8xy5
AluRoms ==
    { Prog(<<LdImm(15, f), LdImm(x, a), LdImm(y, b), Alu(x, y, op)>>) :
        f \in AluFlags, x \in AluRegs, y \in AluRegs, a \in AluValues, b \in AluValues,
        op \in {4, 5} }

\* vF <- f; vx <- a; then 7xkk twice
AddImmRoms ==
    { Prog(<<LdImm(15, f), LdImm(x, a), AddImm(x, k1), AddImm(x, k2)>>) :
        f \in AluFlags, x \in {0, 15}, a \in AluValues,
        k1 \in AluImmediates, k2 \in AluImmediates }

\* v0 <- 5; v1 <- 3; v0 += v1
ScenarioRom == <<96, 5, 97, 3, 128, 20>>

NextAlu == Loop(AluRoms \cup AddImmRoms \cup {ScenarioRom}, MaxCycles)

SpecAlu == Init /\ [][NextAlu]_vars

\* ------------------------------------------------------------ claims: arithmetic

\* the last cycle ran an instruction 8xy<op> to its end
Ran8(op) == prev.valid /\ status = Running /\ prev.opcode.d1 = 8 /\ prev.opcode.d4 = op

\* C3: one 8xy4 cycle sets the flag register to exactly 1 if the unsigned sum of
\* the registers as they were before it exceeds 255 and to exactly 0 otherwise,
\* whatever the flag held before, and stores the sum mod 256 in vx[x] (x being
\* another register than the flag).
C3_AddCarryFlag ==
    Ran8(4) =>
        LET x == prev.opcode.d2
            y == prev.opcode.d3
            sum == prev.cpu.vx[x] + prev.cpu.vx[y]
        IN  /\ cpu.vx[15] = (IF sum > 255 THEN 1 ELSE 0)
            /\ x # 15 => cpu.vx[x] = sum % 256

\* C4: one 8xy5 cycle sets the flag register to 1 if and only if vx[x] > vx[y]
\* as they were before it, else to 0, and stores (vx[x] - vx[y]) mod 256 of
\* those values in vx[x] (x being another register than the flag).
C4_SubBorrowFlag ==
    Ran8(5) =>
        LET x == prev.opcode.d2
            y == prev.opcode.d3
            a == prev.cpu.vx[x]
            b == prev.cpu.vx[y]
        IN  /\ cpu.vx[15] = (IF a > b THEN 1 ELSE 0)
            /\ x # 15 => cpu.vx[x] = (a - b + 256) % 256

\* the instruction at address a is 7xkk on register x
IsAddImmAt(a, x) == ram[a] \div 16 = 7 /\ ram[a] % 16 = x

\* C5: 7xkk stores (vx[x] + kk) mod 256 in vx[x] and writes no other register,
\* so the flag register is as it was unless it is the register named; two 7xkk
\* in a row on one register leave the sum of all three operands mod 256.
C5_AddImmediateWraps ==
    [][ (phase = "run" /\ phase' = "tick" /\ CanFetch(Chip8) /\ Fetch(Chip8).d1 = 7) =>
            LET o == Fetch(Chip8)
                x == o.d2
                kk == o.d3 * 16 + o.d4
            IN  /\ status' = Running
                /\ cpu'.vx = [cpu.vx EXCEPT ![x] = (cpu.vx[x] + kk) % 256]
                /\ (prev.valid /\ prev.opcode.d1 = 7 /\ prev.opcode.d2 = x) =>
                      LET k1 == prev.opcode.d3 * 16 + prev.opcode.d4
                      IN  /\ cpu'.vx[x] = (prev.cpu.vx[x] + k1 + kk) % 256
                          /\ x # 15 => cpu'.vx[15] = prev.cpu.vx[15] ]_vars

\* two 7xkk on register 0 have run, their operands summing past 255, the flag
\* register holding 1 throughout
C5_Witness ==
    /\ phase = "tick" /\ status = Running /\ cycles = 4
    /\ prev.valid /\ prev.opcode.d1 = 7 /\ prev.opcode.d2 = 0
    /\ IsAddImmAt(PROGRAM_START + 4, 0) /\ IsAddImmAt(PROGRAM_START + 6, 0)
    /\ ram[PROGRAM_START + 3] + ram[PROGRAM_START + 5] + ram[PROGRAM_START + 7] > 255
    /\ cpu.vx[0] = (ram[PROGRAM_START + 3] + ram[PROGRAM_START + 5]
                      + ram[PROGRAM_START + 7]) % 256
    /\ cpu.vx[15] = 1

\* the scenario program is what was loaded
ScenarioLoaded ==
    \A k \in 1..Len(ScenarioRom) : ram[PROGRAM_START + k - 1] = ScenarioRom[k]

\* C8: with the program 60 05 61 03 80 14 loaded at 0x200, after exactly 3
\* cycles vx[0] = 8, vx[1] = 3, the flag register is 0 and pc = 0x206, and none
\* of the three cycles has panicked.
C8_ScenarioAdd ==
    (ScenarioLoaded /\ cycles = 3) =>
        /\ status \in {Running, ClockPanic}
        /\ cpu.vx[0] = 8
        /\ cpu.vx[1] = 3
        /\ cpu.vx[15] = 0
        /\ cpu.pc = 518

\* the third cycle of the scenario program has run
C8_Witness ==
    /\ ScenarioLoaded /\ cycles = 3 /\ phase = "tick"
    /\ prev.valid /\ prev.opcode = [d1 |-> 8, d2 |-> 0, d3 |-> 1, d4 |-> 4]
    /\ cpu.vx[0] = 8

\* ------------------------------------------------------------ stack programs

\* cycles the stack programs are followed for
MaxStackCycles == 19
\* calls a stack program makes at most: one more than the stack holds
MaxCalls == 17
\* returns a stack program makes at most
MaxReturns == 2

Call(nnn) == 8192 + nnn
Ret == 238

StackTargets == {768, 2748}

\* k calls, the j-th to nnn + 2 * j, then m returns
StackRoms ==
    { Prog([j \in 1..(k + m) |-> IF j <= k THEN Call(nnn + 2 * j) ELSE Ret]) :
        k \in 0..MaxCalls, m \in 1..MaxReturns, nnn \in StackTargets }

NextStack == Loop(StackRoms, MaxStackCycles)

SpecStack == Init /\ [][NextStack]_vars

\* ------------------------------------------------------------ claims: stack

IsCall(o) == o.d1 = 2
IsRet(o) == o.d1 = 0 /\ o.d2 = 0 /\ o.d3 = 14 /\ o.d4 = 14

\* C1: a 2nnn cycle fetched at pc = p followed at once by a 00EE cycle leaves
\* pc = p + 2 and the stack size as it was before the call.
C1_StackRoundTrip ==
    [][ (/\ phase = "run" /\ phase' = "tick" /\ status = Running
         /\ prev.valid /\ IsCall(prev.opcode)
         /\ CanFetch(Chip8) /\ IsRet(Fetch(Chip8))) =>
            /\ status' = Running
            /\ cpu'.pc = prev.cpu.pc + 2
            /\ stack'.size = prev.stack.size ]_vars

\* C2: no call or return ends in a panic, and the size counter is within 0..16
\* in every reachable state.
C2_StackFailuresDefined ==
    /\ stack.size \in 0..STACK_SLOTS
    /\ ~(/\ status \in {IndexPanic, OverflowPanic}
         /\ prev.valid /\ (IsCall(prev.opcode) \/ IsRet(prev.opcode)))

\* ------------------------------------------------------------ drawing programs

LdI(nnn) == 40960 + nnn
Draw(x, y, n) == 53248 + x * 256 + y * 16 + n
Cls == 224

\* where the sprites are read: two font digits, and the bytes of the program's
\* second instruction
DrawAddresses == {0, 5, PROGRAM_START + 2}
\* Dxyn as <<x, y, n>>
DrawOps == {0, 8} \X {0, 1} \X {0, 2, 5}

DrawWord(d) == Draw(d[1], d[2], d[3])

\* i <- nnn, then one sprite twice
DrawTwiceRoms ==
    { Prog(<<LdI(nnn), DrawWord(d), DrawWord(d)>>) : nnn \in DrawAddresses, d \in DrawOps }

\* the screen cleared first
ClearDrawTwiceRoms ==
    { Prog(<<Cls, LdI(nnn), DrawWord(d), DrawWord(d)>>) :
        nnn \in DrawAddresses, d \in DrawOps }

\* another sprite drawn first
DrawOverRoms ==
    { Prog(<<LdI(nnn), DrawWord(e), DrawWord(d), DrawWord(d)>>) :
        nnn \in {0, 5}, e \in DrawOps, d \in DrawOps }

\* a sprite, the screen cleared, the sprite again
DrawClearDrawRoms ==
    { Prog(<<LdI(nnn), DrawWord(d), Cls, DrawWord(d)>>) :
        nnn \in DrawAddresses, d \in DrawOps }

NextDraw ==
    Loop(DrawTwiceRoms \cup ClearDrawTwiceRoms \cup DrawOverRoms \cup DrawClearDrawRoms,
         MaxCycles)

SpecDraw == Init /\ [][NextDraw]_vars

\* ------------------------------------------------------------ claims: display

\* this step is a cycle of the host loop that fetches an instruction
Cycle == phase = "run" /\ phase' = "tick" /\ status = Running /\ CanFetch(Chip8)

IsCls(o) == o.d1 = 0 /\ o.d2 = 0 /\ o.d3 = 14 /\ o.d4 = 0

Pixels == 0..(WIDTH * HEIGHT - 1)

\* this step runs the Dxyn that the last cycle ran, with the same index register
SecondDraw ==
    /\ Cycle
    /\ Fetch(Chip8).d1 = 13
    /\ prev.valid /\ prev.opcode = Fetch(Chip8) /\ prev.cpu.i = cpu.i

\* C6 as claimed: the same Dxyn twice in a row restores every pixel to its
\* value before the first and leaves the flag register 0 after the second.
C6_DrawTwiceFlagZero ==
    [][ SecondDraw =>
            /\ status' = Running
            /\ display' = prev.display
            /\ cpu'.vx[15] = 0 ]_vars

\* C6 as amended: the same Dxyn twice in a row restores every pixel to its value
\* before the first; the flag register after the second is 1 exactly when the
\* first turned at least one pixel on (the second turns it off again), else 0.
C6_DrawTwiceRestores ==
    [][ SecondDraw =>
            /\ status' = Running
            /\ display' = prev.display
            /\ cpu'.vx[15] =
                 (IF \E p \in Pixels : prev.display[p] = 0 /\ display[p] # 0
                  THEN 1 ELSE 0) ]_vars

\* i <- nnn; Dxyn; Dxyn has run on the blank screen: the second draw changed
\* pixels, the screen is blank again and the flag register is 1
C6_Witness ==
    /\ phase = "tick" /\ status = Running /\ cycles = 3
    /\ prev.valid /\ prev.opcode.d1 = 13 /\ prev.cpu.pc = PROGRAM_START + 4
    /\ ram[PROGRAM_START + 2] = ram[PROGRAM_START + 4]
    /\ ram[PROGRAM_START + 3] = ram[PROGRAM_START + 5]
    /\ prev.display # display
    /\ \A p \in Pixels : display[p] = 0
    /\ cpu.vx[15] = 1

\* C7: a 00E0 cycle leaves every pixel 0, as at construction, and a draw in the
\* cycle after it reports no collision.
C7_ClearAllOff ==
    [][ /\ (Cycle /\ IsCls(Fetch(Chip8))) => \A p \in Pixels : display'[p] = 0
        /\ (Cycle /\ prev.valid /\ IsCls(prev.opcode) /\ Fetch(Chip8).d1 = 13
              /\ status' = Running) => cpu'.vx[15] = 0 ]_vars

\* ------------------------------------------------------------ timer programs

SetDelay(x) == 61461 + x * 256
SetSound(x) == 61464 + x * 256
GetDelay(x) == 61447 + x * 256

TimerValues == {0, 1, 2, 3}
TimerWords == {GetDelay(1), SetSound(0), SetDelay(1), 0}

\* v0 <- v; delay <- v0; then two more instructions
TimerRoms ==
    { Prog(<<LdImm(0, v), SetDelay(0), w1, w2>>) :
        v \in TimerValues, w1 \in TimerWords, w2 \in TimerWords }

NextTimer == Loop(TimerRoms, MaxCycles)

SpecTimer == Init /\ [][NextTimer]_vars

\* ------------------------------------------------------------ claims: timers

\* this step is a timer check of the host loop
TimerCheck == phase = "tick" /\ phase' = "run"

\* Fx15 or Fx18
IsSetTimer(o) == o.d1 = 15 /\ o.d3 = 1 /\ (o.d4 = 5 \/ o.d4 = 8)

\* sound counters the timer check is also applied to
MaxSound == 2

\* what a check that reads elapsed makes of a counter
CountedDown(counter, e) == IF counter > 0 /\ e >= TicksPerFrame THEN counter - 1 ELSE counter

\* C9: a timer check takes exactly 1 from each timer that is nonzero when at
\* least 1/60 second has gone by since the last decrement, and leaves it as it
\* was otherwise, both timers in the same check when both are nonzero; the time
\* since the last decrement starts again only at a decrement; no timer goes
\* below 0; a cycle other than Fx15/Fx18 changes no timer. A check that finds
\* the clock earlier than the stored instant (no time gone by) ends in a panic
\* and changes no timer.
C9_TimersCountDown ==
    [][ /\ (TimerCheck /\ status' = ClockPanic) => hour' = hour
        /\ (TimerCheck /\ status' # ClockPanic) =>
              /\ hour'.delay = CountedDown(hour.delay, last_elapsed')
              /\ hour'.sound = CountedDown(hour.sound, last_elapsed')
              /\ hour'.hour = (IF hour'.delay < hour.delay \/ hour'.sound < hour.sound
                               THEN 0 ELSE last_elapsed')
              /\ hour'.delay >= 0 /\ hour'.sound >= 0
              \* the same check with the sound timer holding s
              /\ \A s \in 0..MaxSound :
                    LET t == delay_countdown([hour EXCEPT !.sound = s], last_elapsed')
                    IN  /\ t.delay = CountedDown(hour.delay, last_elapsed')
                        /\ t.sound = CountedDown(s, last_elapsed')
                        /\ t.sound >= 0
        /\ (Cycle /\ ~IsSetTimer(Fetch(Chip8))) =>
              /\ hour'.delay = hour.delay
              /\ hour'.sound = hour.sound ]_vars

\* Fx15 has set the delay timer to 2 and the check after it, 1/60 second after
\* the stored instant, has taken 1 from it
C9_Witness ==
    /\ phase = "run" /\ status = Running
    /\ prev.valid /\ prev.opcode.d1 = 15 /\ prev.opcode.d3 = 1 /\ prev.opcode.d4 = 5
    /\ cpu.vx[prev.opcode.d2] = 2
    /\ last_elapsed = TicksPerFrame
    /\ hour.delay = 1 /\ hour.hour = 0

\* ------------------------------------------------------------ unknown instructions

\* the instruction table: the patterns that name an instruction
InTable(o) ==
    \/ o.d1 = 0 /\ o.d2 = 0 /\ o.d3 = 14 /\ o.d4 \in {0, 14}
    \/ o.d1 \in {1, 2, 3, 4, 6, 7, 10, 11, 12, 13}
    \/ o.d1 \in {5, 9} /\ o.d4 = 0
    \/ o.d1 = 8 /\ o.d4 \in {0, 1, 2, 3, 4, 5, 6, 7, 14}
    \/ o.d1 = 14 /\ <<o.d3, o.d4>> \in {<<9, 14>>, <<10, 1>>}
    \/ o.d1 = 15 /\ <<o.d3, o.d4>> \in {<<0, 7>>, <<0, 10>>, <<1, 5>>, <<1, 8>>, <<1, 14>>,
                                        <<2, 9>>, <<3, 3>>, <<5, 5>>, <<6, 5>>}

\* instruction words of the classes that hold words outside the table
SampleWords ==
    { d1 * 4096 + d2 * 256 + d3 * 16 + d4 :
        d1 \in {0, 5, 8, 9, 14, 15}, d2 \in {0, 1}, d3 \in {0, 1, 9, 14},
        d4 \in {0, 1, 5, 7, 8, 10, 14, 15} }

UnknownWords == { w \in SampleWords : ~InTable(Decode(w \div 256, w % 256)) }

\* v1 <- 5; delay <- v1; then a word outside the table
UnknownRoms == { Prog(<<LdImm(1, 5), SetDelay(1), w>>) : w \in UnknownWords }

NextUnknown == Loop(UnknownRoms, MaxCycles)

SpecUnknown == Init /\ [][NextUnknown]_vars

\* C10: a cycle that fetches a word outside the instruction table does not end
\* the machine and changes pc alone, by exactly 2.
C10_UnknownIsNoOp ==
    [][ (Cycle /\ ~InTable(Fetch(Chip8))) =>
            /\ status' = Running
            /\ cpu' = [cpu EXCEPT !.pc = cpu.pc + 2]
            /\ UNCHANGED <<ram, display, stack, hour>> ]_vars

\* the word 5001, outside the table, has run with vx[0] = vx[0], registers and
\* delay timer set: pc is 2 past it
C10_Witness ==
    /\ phase = "tick" /\ status = Running /\ cycles = 3
    /\ prev.valid /\ prev.opcode = [d1 |-> 5, d2 |-> 0, d3 |-> 0, d4 |-> 1]
    /\ ~InTable(prev.opcode)
    /\ cpu.pc = prev.cpu.pc + 2
    /\ cpu.vx[1] = 5 /\ hour.delay > 0

\* ------------------------------------------------------------ key programs

WaitKey(x) == 61450 + x * 256

KeyRegs == {0, 1, 15}
KeyValues == {0, 7, 200}

\* vx <- a; Fx0A; vx += 1
KeyRoms ==
    { Prog(<<LdImm(x, a), WaitKey(x), AddImm(x, 1)>>) : x \in KeyRegs, a \in KeyValues }

NextKeys == Loop(KeyRoms, MaxCycles)

SpecKeys == Init /\ [][NextKeys]_vars

\* ------------------------------------------------------------ claims: keys

IsWaitKey(o) == o.d1 = 15 /\ o.d3 = 0 /\ o.d4 = 10

\* the logical keys whose host key is among keys
KeysDown(keys) == { k \in 0..15 : is_key_down(keys, keyboard[k]) }

\* C11: a cycle that fetches Fx0A while no logical key is down changes nothing,
\* pc included, so that the next cycle fetches the Fx0A again; with a key down
\* it stores the logical code of a key that is down in vx[x], moves pc to the
\* next instruction and changes nothing else; it never ends the machine.
C11_WaitForKeyBlocks ==
    [][ (Cycle /\ IsWaitKey(Fetch(Chip8))) =>
            LET x == Fetch(Chip8).d2
                down == KeysDown(prev'.keys)
            IN  /\ status' = Running
                /\ UNCHANGED <<ram, display, stack, hour>>
                /\ IF down = {}
                   THEN cpu' = cpu
                   ELSE \E k \in down :
                           cpu' = [cpu EXCEPT !.pc = cpu.pc + 2, !.vx[x] = k] ]_vars

\* ------------------------------------------------------------ load programs

\* the bytes of ram from PROGRAM_START to its end
ROM_SPACE == RAM_SIZE - PROGRAM_START

\* bytes by which the longest program loaded exceeds ROM_SPACE
MaxExcess == 2

LoadLengths == {0, 2, ROM_SPACE - 1, ROM_SPACE} \cup { ROM_SPACE + e : e \in 1..MaxExcess }
LoadBytes == {0, 18, 96, 112}

\* n bytes counting up from b
LoadRoms == { [k \in 1..n |-> (b + k - 1) % U8_MOD] : n \in LoadLengths, b \in LoadBytes }

NextLoad == Loop(LoadRoms, MaxCycles)

SpecLoad == Init /\ [][NextLoad]_vars

\* ------------------------------------------------------------ claims: loading

\* this step is main's call of load_rom
LoadStep == phase = "load" /\ phase' = "run"

\* C12: load_rom with a program of at most 3584 bytes copies its bytes to ram
\* from 0x200 on and changes nothing else; with a longer program it changes
\* nothing at all, ram included; in both cases the machine is not ended by a
\* panic (the failure is one the caller gets back).
C12_LoadRomChecked ==
    [][ LoadStep =>
            /\ status' = Running
            /\ UNCHANGED <<cpu, display, stack, hour>>
            /\ IF Len(rom') <= ROM_SPACE
               THEN ram' = [a \in 0..(RAM_SIZE - 1) |->
                               IF a >= PROGRAM_START /\ a < PROGRAM_START + Len(rom')
                               THEN rom'[a - PROGRAM_START + 1]
                               ELSE ram[a]]
               ELSE ram' = ram ]_vars

\* ------------------------------------------------------------ address programs

Jump(nnn) == 4096 + nnn
SkipEq(x, kk) == 12288 + x * 256 + kk
AddIndex(x) == 61470 + x * 256
StoreBcd(x) == 61491 + x * 256
StoreRegs(x) == 61525 + x * 256
LoadRegs(x) == 61541 + x * 256

\* jumps to the last words of ram
JumpTargets == {RAM_SIZE - 4, RAM_SIZE - 2, RAM_SIZE - 1}
\* index values near the end of ram, and what is added to them
IndexStarts == {RAM_SIZE - 3, RAM_SIZE - 1}
IndexSteps == {0, 1, 3, 255}

\* a jump to the end of ram
JumpEndRoms == { Prog(<<Jump(nnn)>>) : nnn \in JumpTargets }

\* i <- nnn; v1 <- v; i += v1; then an instruction that reads or writes ram at i
IndexEndRoms ==
    { Prog(<<LdI(nnn), LdImm(1, v), AddIndex(1), w>>) :
        nnn \in IndexStarts, v \in IndexSteps,
        w \in {StoreBcd(1), StoreRegs(2), LoadRegs(2), Draw(0, 0, 1)} }

\* a program that fills ram: a jump to its last word, which is 3000 (skip, as
\* vx[0] = 0)
SkipEndRom ==
    [k \in 1..ROM_SPACE |->
        IF k <= 2 THEN Prog(<<Jump(RAM_SIZE - 2)>>)[k]
        ELSE IF k > ROM_SPACE - 2 THEN Prog(<<SkipEq(0, 0)>>)[k - (ROM_SPACE - 2)]
        ELSE 0]

NextRange == Loop(JumpEndRoms \cup IndexEndRoms \cup {SkipEndRom}, MaxCycles)

SpecRange == Init /\ [][NextRange]_vars

\* ------------------------------------------------------------ claims: addresses

\* C13: in every reachable state pc and the index register are within 0..4095,
\* and no fetch at pc, pc + 1 and no access at i + k by Dxyn, Fx33, Fx55 or
\* Fx65 falls outside ram (which ends the machine with an index panic).
C13_AddressesInRange ==
    /\ cpu.pc \in 0..(RAM_SIZE - 1)
    /\ cpu.i \in 0..(RAM_SIZE - 1)
    /\ status # IndexPanic

\* ------------------------------------------------------------ coordinate programs

\* registers that hold the coordinates, and the coordinates
CoordRegs == {0, 3}
CoordXs == {0, 62, 200}
CoordYs == {0, 30}
\* where the sprite is read: a font digit, and the bytes of the program itself
CoordAddresses == {5, PROGRAM_START}
CoordRows == {1, 5}

\* vx <- a; vy <- b; i <- nnn; Dxyn
CoordRoms ==
    { Prog(<<LdImm(x, a), LdImm(y, b), LdI(nnn), Draw(x, y, n)>>) :
        x \in CoordRegs, y \in CoordRegs, a \in CoordXs, b \in CoordYs,
        nnn \in CoordAddresses, n \in CoordRows }

\* vx <- a; i <- nnn; Dxxn twice
CoordTwiceRoms ==
    { Prog(<<LdImm(x, a), LdI(nnn), Draw(x, x, n), Draw(x, x, n)>>) :
        x \in CoordRegs, a \in CoordXs, nnn \in CoordAddresses, n \in CoordRows }

NextCoord == Loop(CoordRoms \cup CoordTwiceRoms, MaxCycles)

SpecCoord == Init /\ [][NextCoord]_vars

\* ------------------------------------------------------------ claims: coordinates

\* bit (7 - col) of a sprite byte
SpriteBit(byte, col) == (byte \div Pow2(7 - col)) % 2

\* C14: a Dxyn cycle whose n sprite bytes are in ram toggles exactly the pixels
\* ((vx[x] + col) mod 64, (vx[y] + row) mod 32) for the rows 0..n-1 and the
\* columns 0..7 whose sprite bit (bit 7 - col of ram[i + row]) is 1, and leaves
\* the flag register 1 if one of them was on before and 0 otherwise.
C14_DrawAtRegisterCoordinates ==
    [][ (Cycle /\ Fetch(Chip8).d1 = 13 /\ cpu.i + Fetch(Chip8).d4 <= RAM_SIZE) =>
            LET o == Fetch(Chip8)
                bits == { rc \in (0..(o.d4 - 1)) \X (0..7) :
                            SpriteBit(ram[cpu.i + rc[1]], rc[2]) = 1 }
                toggled == { ((cpu.vx[o.d3] + rc[1]) % HEIGHT) * WIDTH
                                + ((cpu.vx[o.d2] + rc[2]) % WIDTH) : rc \in bits }
            IN  /\ status' = Running
                /\ \A p \in Pixels :
                      IF p \in toggled
                      THEN (display'[p] = 0) <=> (display[p] # 0)
                      ELSE display'[p] = display[p]
                /\ cpu'.vx[15] = (IF \E p \in toggled : display[p] # 0 THEN 1 ELSE 0) ]_vars

\* ------------------------------------------------------------ reverse subtract and shift programs

\* vF <- f; vx <- a; vy <- b; then 8xy7 or 8xyE
SubnShlRoms ==
    { Prog(<<LdImm(15, f), LdImm(x, a), LdImm(y, b), Alu(x, y, op)>>) :
        f \in AluFlags, x \in AluRegs, y \in AluRegs, a \in AluValues, b \in AluValues,
        op \in {7, 14} }

NextSubnShl == Loop(SubnShlRoms, MaxCycles)

SpecSubnShl == Init /\ [][NextSubnShl]_vars

\* ------------------------------------------------------------ claims: reverse subtract and shift

\* C15: one 8xy7 cycle sets the flag register to 1 if vx[y] > vx[x] as they
\* were before it, else to 0, stores (vx[y] - vx[x]) mod 256 of those values in
\* vx[x] (x being another register than the flag) and leaves vx[y] as it was
\* when y is neither x nor the flag register.
C15_ReverseSubtract ==
    Ran8(7) =>
        LET x == prev.opcode.d2
            y == prev.opcode.d3
            a == prev.cpu.vx[x]
            b == prev.cpu.vx[y]
        IN  /\ cpu.vx[15] = (IF b > a THEN 1 ELSE 0)
            /\ x # 15 => cpu.vx[x] = (b - a + 256) % 256
            /\ (y # x /\ y # 15) => cpu.vx[y] = b

\* C16: one 8xyE cycle sets the flag register to bit 7 of vx[x] as it was
\* before it and stores (vx[x] * 2) mod 256 in vx[x] (x being another register
\* than the flag).
C16_ShiftLeft ==
    Ran8(14) =>
        LET x == prev.opcode.d2
            a == prev.cpu.vx[x]
        IN  /\ cpu.vx[15] = a \div 128
            /\ x # 15 => cpu.vx[x] = (a * 2) % 256

\* ------------------------------------------------------------ offset jump programs

JumpV0(nnn) == 45056 + nnn

OffsetTargets == {527, 767, 768, 784, 4095}
OffsetValues == {0, 1, 16, 255}

\* v0 <- v; Bnnn
OffsetRoms == { Prog(<<LdImm(0, v), JumpV0(nnn)>>) : v \in OffsetValues, nnn \in OffsetTargets }

NextOffset == Loop(OffsetRoms, MaxCycles)

SpecOffset == Init /\ [][NextOffset]_vars

\* ------------------------------------------------------------ claims: offset jump

\* C17: one Bnnn cycle leaves pc = nnn + vx[0], nnn being the 12-bit number of
\* the three low nibbles of the instruction.
C17_JumpOffsetSum ==
    [][ (Cycle /\ Fetch(Chip8).d1 = 11) =>
            LET o == Fetch(Chip8)
                nnn == o.d2 * 256 + o.d3 * 16 + o.d4
            IN  /\ status' = Running
                /\ cpu'.pc = nnn + cpu.vx[0] ]_vars

\* ------------------------------------------------------------ memory programs

\* where the memory programs point the index register: the font, free ram, and
\* the last three bytes of ram
MemAddresses == {0, 768, RAM_SIZE - 3}
BcdRegs == {0, 2}
BcdValues == {0, 7, 123, 200, 255}

\* vx <- v; i <- nnn; Fx33
BcdRoms ==
    { Prog(<<LdImm(x, v), LdI(nnn), StoreBcd(x)>>) :
        x \in BcdRegs, v \in BcdValues, nnn \in MemAddresses }

\* the last register named by a block transfer
BlockLast == {0, 1, 15}
BlockValues == {7, 200}

\* v0 <- a; v1 <- 9; i <- nnn; Fx55
RegStoreRoms ==
    { Prog(<<LdImm(0, a), LdImm(1, 9), LdI(nnn), StoreRegs(x)>>) :
        a \in BlockValues, nnn \in {0, 768}, x \in BlockLast }

\* v0 <- a; v1 <- 9; i <- nnn; Fx65, from the font or from the program itself
RegLoadRoms ==
    { Prog(<<LdImm(0, a), LdImm(1, 9), LdI(nnn), LoadRegs(x)>>) :
        a \in BlockValues, nnn \in {0, PROGRAM_START}, x \in BlockLast }

NextMem == Loop(BcdRoms \cup RegStoreRoms \cup RegLoadRoms, MaxCycles)

SpecMem == Init /\ [][NextMem]_vars

\* ------------------------------------------------------------ claims: memory

IsStoreBcd(o) == o.d1 = 15 /\ o.d3 = 3 /\ o.d4 = 3
IsStoreRegs(o) == o.d1 = 15 /\ o.d3 = 5 /\ o.d4 = 5
IsLoadRegs(o) == o.d1 = 15 /\ o.d3 = 6 /\ o.d4 = 5

\* C18: one Fx33 cycle with i + 2 inside ram leaves ram[i] = v div 100,
\* ram[i + 1] = (v div 10) mod 10 and ram[i + 2] = v mod 10, v being vx[x], and
\* changes no other byte of ram and no register.
C18_BcdDigits ==
    [][ (Cycle /\ IsStoreBcd(Fetch(Chip8)) /\ cpu.i + 2 < RAM_SIZE) =>
            LET v == cpu.vx[Fetch(Chip8).d2]
            IN  /\ status' = Running
                /\ ram' = [ram EXCEPT ![cpu.i] = v \div 100,
                                      ![cpu.i + 1] = (v \div 10) % 10,
                                      ![cpu.i + 2] = v % 10]
                /\ cpu'.vx = cpu.vx
                /\ cpu'.i = cpu.i ]_vars

\* C19: one Fx55 cycle writes vx[k] to ram[i + k] for every k in 0..x, x
\* included, and changes no other byte; one Fx65 cycle sets vx[k] to ram[i + k]
\* for every k in 0..x, x included, and changes no other register (i + x being
\* inside ram).
C19_BlockTransferInclusive ==
    [][ /\ (Cycle /\ IsStoreRegs(Fetch(Chip8)) /\ cpu.i + Fetch(Chip8).d2 < RAM_SIZE) =>
              LET x == Fetch(Chip8).d2
              IN  /\ status' = Running
                  /\ ram' = [a \in 0..(RAM_SIZE - 1) |->
                                IF a >= cpu.i /\ a <= cpu.i + x THEN cpu.vx[a - cpu.i]
                                ELSE ram[a]]
                  /\ cpu'.vx = cpu.vx
        /\ (Cycle /\ IsLoadRegs(Fetch(Chip8)) /\ cpu.i + Fetch(Chip8).d2 < RAM_SIZE) =>
              LET x == Fetch(Chip8).d2
              IN  /\ status' = Running
                  /\ cpu'.vx = [r \in 0..(NUM_REGS - 1) |->
                                   IF r <= x THEN ram[cpu.i + r] ELSE cpu.vx[r]]
                  /\ ram' = ram ]_vars

\* ------------------------------------------------------------ claims: sound timer

IsSetSound(o) == o.d1 = 15 /\ o.d3 = 1 /\ o.d4 = 8
IsSetDelay(o) == o.d1 = 15 /\ o.d3 = 1 /\ o.d4 = 5

\* C20: one Fx18 cycle leaves the sound timer equal to vx[x] and one Fx15 cycle
\* leaves the delay timer equal to vx[x]; at the timer check after an Fx18 with
\* vx[x] > 0 the sound timer is nonzero, and the check counts it down.
C20_SetSoundTimer ==
    [][ /\ (Cycle /\ IsSetSound(Fetch(Chip8))) =>
              /\ status' = Running
              /\ hour'.sound = cpu.vx[Fetch(Chip8).d2]
        /\ (Cycle /\ IsSetDelay(Fetch(Chip8))) =>
              /\ status' = Running
              /\ hour'.delay = cpu.vx[Fetch(Chip8).d2]
        /\ (TimerCheck /\ status' # ClockPanic /\ prev.valid /\ IsSetSound(prev.opcode)
              /\ prev.cpu.vx[prev.opcode.d2] > 0) =>
              /\ hour.sound > 0
              /\ hour'.sound = CountedDown(hour.sound, last_elapsed') ]_vars

\* ------------------------------------------------------------ all programs

Next ==
    Loop(AluRoms \cup AddImmRoms \cup {ScenarioRom} \cup StackRoms \cup DrawTwiceRoms
           \cup ClearDrawTwiceRoms \cup DrawOverRoms \cup DrawClearDrawRoms
           \cup TimerRoms \cup UnknownRoms \cup KeyRoms \cup LoadRoms \cup JumpEndRoms
           \cup IndexEndRoms \cup {SkipEndRom} \cup CoordRoms \cup CoordTwiceRoms
           \cup SubnShlRoms \cup OffsetRoms \cup BcdRoms \cup RegStoreRoms \cup RegLoadRoms,
         MaxCycles)

Spec == Init /\ [][Next]_vars

====
